---- MODULE Spec2Model ----
(***************************************************************************)
(* kersteg: LSB steganography of one RGB image inside another.             *)
(*                                                                         *)
(* The module models src/src/main.rs: the per-pixel codec (process_pixel), *)
(* the two fork-join transforms (perform_lsb_steganography and             *)
(* decode_lsb_steganography, which share one shape) and the pipeline of    *)
(* main around them.  Machine integers keep their width: channels are u8,  *)
(* image dimensions are u32 and the buffer length is a u32 product cast to *)
(* usize.                                                                  *)
(***************************************************************************)
EXTENDS Integers, Sequences, FiniteSets

VARIABLES
    \* --- the codec on one pixel (process_pixel in isolation) ---
    cstage,          \* "off" | "input" | "encoded" | "roundtrip" | "decoded"
    secret_in,       \* first argument of process_pixel
    decoy_in,        \* second argument of process_pixel
    encoded_px,      \* process_pixel(secret_in, decoy_in, true)
    decoded_px,      \* result of the decode call
    \* --- the process (main and the transforms) ---
    args_len,        \* args.len(), the program name included
    overflow_checks, \* TRUE: the build panics on integer overflow (debug)
    num_threads,     \* size of the rayon thread pool
    pc,              \* position of main
    err,             \* how the run failed, "none" while it has not
    arm,             \* the arm of main's match: "none" | "decode" | "encode"
    secret_img,      \* encode: the secret image; decode: the encoded image
    decoy_img,       \* encode: the decoy image
    output_img,      \* the Vec<u8> behind Arc<Mutex<..>>, once allocated
    lock_holder,     \* thread holding the output mutex, 0 when it is free
    poisoned,        \* the mutex was poisoned by a panic under the lock
    threads,         \* rayon workers: their share of the pixels and position
    writes,          \* for each output byte, how many times it was stored to
    size_checked,    \* RgbImage::from_raw's length check has run
    loads,           \* number of load_image calls made
    saved            \* the image handed to save

codec_vars == <<cstage, secret_in, decoy_in, encoded_px, decoded_px>>

main_vars == <<args_len, overflow_checks, num_threads, pc, err, arm,
               secret_img, decoy_img, output_img, lock_holder, poisoned,
               threads, writes, size_checked, loads, saved>>

vars == <<cstage, secret_in, decoy_in, encoded_px, decoded_px,
          args_len, overflow_checks, num_threads, pc, err, arm,
          secret_img, decoy_img, output_img, lock_holder, poisoned,
          threads, writes, size_checked, loads, saved>>

\* Option values: None, and Some(x) as its own record
NoImage == [width |-> 0, height |-> 0, seed |-> 0]
NoBuffer == [some |-> FALSE, vec |-> <<>>]
SomeBuffer(v) == [some |-> TRUE, vec |-> v]
NotSaved == [some |-> FALSE, width |-> 0, height |-> 0, raw |-> <<>>]

(***************************************************************************)
(* u8 arithmetic                                                           *)
(***************************************************************************)
U8 == 0..255

RECURSIVE Pow2(_)
Pow2(n) == IF n = 0 THEN 1 ELSE 2 * Pow2(n - 1)

\* a & b on the low n bits
RECURSIVE BitAndN(_, _, _)
BitAndN(a, b, n) ==
    IF n = 0 THEN 0
    ELSE (IF a % 2 = 1 /\ b % 2 = 1 THEN 1 ELSE 0)
         + 2 * BitAndN(a \div 2, b \div 2, n - 1)

\* a | b on the low n bits
RECURSIVE BitOrN(_, _, _)
BitOrN(a, b, n) ==
    IF n = 0 THEN 0
    ELSE (IF a % 2 = 1 \/ b % 2 = 1 THEN 1 ELSE 0)
         + 2 * BitOrN(a \div 2, b \div 2, n - 1)

AndU8(a, b) == BitAndN(a, b, 8)
OrU8(a, b) == BitOrN(a, b, 8)
\* a >> s on u8
ShrU8(a, s) == a \div Pow2(s)
\* a << s on u8: the bits shifted past bit 7 are lost
ShlU8(a, s) == (a * Pow2(s)) % 256

MASK_ENCODING == 254
MASK_DECODING == 1
SHIFT == 7

(***************************************************************************)
(* process_pixel                                                           *)
(***************************************************************************)
\* A pixel is the triple of its channels, <<r, g, b>>.
Channels == 1..3

\* as process_pixel, but the encode arm hides the secret's lowest bit
process_pixel_low_bit(secret_pixel, decoy_pixel, encoding) ==
    LET mask == IF encoding THEN MASK_ENCODING ELSE MASK_DECODING
    IN  [i \in Channels |->
            IF encoding
            THEN OrU8(AndU8(decoy_pixel[i], mask), AndU8(secret_pixel[i], 1))
            ELSE ShlU8(AndU8(secret_pixel[i], mask), SHIFT)]

\* as process_pixel, but with the two masks exchanged
process_pixel_masks_swapped(secret_pixel, decoy_pixel, encoding) ==
    LET mask == IF encoding THEN MASK_DECODING ELSE MASK_ENCODING
    IN  [i \in Channels |->
            IF encoding
            THEN OrU8(AndU8(decoy_pixel[i], mask), ShrU8(secret_pixel[i], SHIFT))
            ELSE ShlU8(AndU8(secret_pixel[i], mask), SHIFT)]

\* as process_pixel, but the decode arm reads its second argument
process_pixel_decode_reads_decoy(secret_pixel, decoy_pixel, encoding) ==
    LET mask == IF encoding THEN MASK_ENCODING ELSE MASK_DECODING
    IN  [i \in Channels |->
            IF encoding
            THEN OrU8(AndU8(decoy_pixel[i], mask), ShrU8(secret_pixel[i], SHIFT))
            ELSE ShlU8(AndU8(decoy_pixel[i], mask), SHIFT)]

process_pixel(secret_pixel, decoy_pixel, encoding) ==
    LET mask == IF encoding THEN MASK_ENCODING ELSE MASK_DECODING
    IN  [i \in Channels |->
            IF encoding
            THEN OrU8(AndU8(decoy_pixel[i], mask), ShrU8(secret_pixel[i], SHIFT))
            ELSE ShlU8(AndU8(secret_pixel[i], mask), SHIFT)]

\* Rgb([0; 3])
BlackPixel == <<0, 0, 0>>

(***************************************************************************)
(* u32 and usize arithmetic.  A machine integer is the sequence of its     *)
(* base-256 digits, least significant first, so that a product is computed *)
(* exactly as the machine computes it, whatever its size.                  *)
(***************************************************************************)
U32Bytes == 4
UsizeBytes == 8

\* the n digits of the natural number x (x < 2^31)
Digits(x, n) == [k \in 1..n |-> IF k <= 4 THEN (x \div Pow2(8 * (k - 1))) % 256 ELSE 0]

DigitAt(a, k) == IF k <= Len(a) THEN a[k] ELSE 0

\* zero extension (or truncation) of a to n digits: the cast `as`
Resize(a, n) == [k \in 1..n |-> DigitAt(a, k)]

\* sum over i in 1..k of a[i] * b[k + 1 - i]: column k of the long product
RECURSIVE Column(_, _, _, _)
Column(a, b, k, i) ==
    IF i > k THEN 0
    ELSE DigitAt(a, i) * DigitAt(b, k + 1 - i) + Column(a, b, k, i + 1)

RECURSIVE MulFrom(_, _, _, _, _)
MulFrom(a, b, k, carry, n) ==
    IF k > n THEN <<>>
    ELSE LET s == Column(a, b, k, 1) + carry
         IN  <<s % 256>> \o MulFrom(a, b, k + 1, s \div 256, n)

\* a * b modulo 256^n
MulMod(a, b, n) == MulFrom(a, b, 1, 0, n)

\* u32 * u32 with the result wrapped to 32 bits (a build without overflow checks)
WrappingMulU32(a, b) == MulMod(a, b, U32Bytes)

\* the product of two u32 does not fit in a u32
MulOverflowsU32(a, b) ==
    \E k \in (U32Bytes + 1)..UsizeBytes : MulMod(a, b, UsizeBytes)[k] # 0

\* a >= b, both of n digits
RECURSIVE GeqFrom(_, _, _)
GeqFrom(a, b, k) ==
    IF k = 0 THEN TRUE
    ELSE IF a[k] # b[k] THEN a[k] > b[k]
    ELSE GeqFrom(a, b, k - 1)

GeqDigits(a, b) == GeqFrom(a, b, UsizeBytes)

\* the natural number the digits a stand for
RECURSIVE DigitsToNat(_)
DigitsToNat(a) ==
    IF a = <<>> THEN 0 ELSE Head(a) + 256 * DigitsToNat(Tail(a))

\* `width * height * 3` of lines 62 and 81, in u32: the two products overflow
MulDimsOverflows(width, height) ==
    \/ MulOverflowsU32(Digits(width, U32Bytes), Digits(height, U32Bytes))
    \/ MulOverflowsU32(WrappingMulU32(Digits(width, U32Bytes), Digits(height, U32Bytes)),
                       Digits(3, U32Bytes))

\* `(width * height * 3) as usize`: the products are made in u32, then cast
OutputLen(width, height) ==
    Resize(WrappingMulU32(WrappingMulU32(Digits(width, U32Bytes), Digits(height, U32Bytes)),
                          Digits(3, U32Bytes)),
           UsizeBytes)

\* the number of bytes of a width x height RGB image: 3 per pixel, in usize
ImageBytes(width, height) ==
    MulMod(MulMod(Digits(width, UsizeBytes), Digits(height, UsizeBytes), UsizeBytes),
           Digits(3, UsizeBytes), UsizeBytes)

(***************************************************************************)
(* Images                                                                  *)
(***************************************************************************)
MaxArgs == 5
MaxPixels == 4
MaxThreads == 4

\* The pixels an image is made of: pixel i of an image is Palette[(seed + i) mod 4],
\* so neighbouring pixels differ, in their top bits and in their low bits.
Palette == << <<255, 255, 255>>, <<0, 0, 0>>, <<240, 3, 128>>, <<1, 254, 127>> >>
Seeds == {0, 1}

SmallDims == {d \in (1..MaxPixels) \X (1..MaxPixels) : d[1] * d[2] <= MaxPixels}
\* dimensions whose byte count, 3 * width * height, is 2^32 + 2 and 2^32 + 5
LargeDims == {<<2, 715827883>>, <<3, 477218589>>}
Dims == SmallDims \cup LargeDims

\* an RgbImage: its dimensions and its pixels, ImageBytes(width, height) bytes
Images == {[width |-> d[1], height |-> d[2], seed |-> s] : d \in Dims, s \in Seeds}

dimensions(img) == <<img.width, img.height>>
NumPixels(img) == img.width * img.height
\* img.pixels().cloned().collect()[i]
PixelAt(img, i) == Palette[((img.seed + i) % Len(Palette)) + 1]

Zeros(n) == [k \in 1..n |-> 0]

(***************************************************************************)
(* main                                                                    *)
(***************************************************************************)
\* as MatchArm, but two path arguments are taken for an encode run
MatchArm_three_encodes(len) ==
    IF len = 2 THEN "decode"
    ELSE IF len = 4 \/ len = 3 THEN "encode"
    ELSE IF len < 2 THEN "too_few" ELSE "too_many"

\* match args.len()
MatchArm(len) ==
    IF len = 2 THEN "decode"
    ELSE IF len = 4 THEN "encode"
    ELSE IF len < 2 THEN "too_few" ELSE "too_many"

MainMatch ==
    /\ pc = "match"
    /\ LET m == MatchArm(args_len)
       IN  /\ pc' = CASE m = "decode" -> "load_encoded"
                      [] m = "encode" -> "load_secret"
                      [] OTHER -> "exit"
           /\ err' = IF m \in {"too_few", "too_many"} THEN m ELSE err
           /\ arm' = IF m \in {"decode", "encode"} THEN m ELSE arm
    /\ UNCHANGED <<codec_vars, args_len, overflow_checks, num_threads, secret_img,
                   decoy_img, output_img, lock_holder, poisoned, threads, writes,
                   size_checked, loads, saved>>

\* load_image: an error (not a file, unreadable, undecodable) or an image
LoadError == NoImage
LoadResults == Images \cup {LoadError}

\* let encoded_img = load_image(&args[1])?
LoadEncoded ==
    /\ pc = "load_encoded"
    /\ \E r \in LoadResults :
          /\ loads' = loads + 1
          /\ IF r = LoadError
             THEN pc' = "exit" /\ err' = "load" /\ UNCHANGED secret_img
             ELSE pc' = "alloc" /\ secret_img' = r /\ UNCHANGED err
    /\ UNCHANGED <<codec_vars, args_len, overflow_checks, num_threads, arm,
                   decoy_img, output_img, lock_holder, poisoned, threads, writes,
                   size_checked, saved>>

\* let secret_img = load_image(&args[1])?
LoadSecret ==
    /\ pc = "load_secret"
    /\ \E r \in LoadResults :
          /\ loads' = loads + 1
          /\ IF r = LoadError
             THEN pc' = "exit" /\ err' = "load" /\ UNCHANGED secret_img
             ELSE pc' = "load_decoy" /\ secret_img' = r /\ UNCHANGED err
    /\ UNCHANGED <<codec_vars, args_len, overflow_checks, num_threads, arm,
                   decoy_img, output_img, lock_holder, poisoned, threads, writes,
                   size_checked, saved>>

\* let decoy_img = load_image(&args[2])?
LoadDecoy ==
    /\ pc = "load_decoy"
    /\ \E r \in LoadResults :
          /\ loads' = loads + 1
          /\ IF r = LoadError
             THEN pc' = "exit" /\ err' = "load" /\ UNCHANGED decoy_img
             ELSE pc' = "check" /\ decoy_img' = r /\ UNCHANGED err
    /\ UNCHANGED <<codec_vars, args_len, overflow_checks, num_threads, arm,
                   secret_img, output_img, lock_holder, poisoned, threads, writes,
                   size_checked, saved>>

\* as check_compatibility, but only the widths are compared
check_compatibility_widths(secret, decoy) == secret.width = decoy.width

\* TRUE for Ok(()), FALSE for the error
check_compatibility(secret, decoy) == dimensions(secret) = dimensions(decoy)

\* check_compatibility(&secret_img, &decoy_img)?
CheckCompatibility ==
    /\ pc = "check"
    /\ IF check_compatibility(secret_img, decoy_img)
       THEN pc' = "alloc" /\ UNCHANGED err
       ELSE pc' = "exit" /\ err' = "compat"
    /\ UNCHANGED <<codec_vars, args_len, overflow_checks, num_threads, arm,
                   secret_img, decoy_img, output_img, lock_holder, poisoned, threads,
                   writes, size_checked, loads, saved>>

(***************************************************************************)
(* perform_lsb_steganography and decode_lsb_steganography                  *)
(*                                                                         *)
(* par_iter().enumerate().for_each(..) hands the pixel indices to the      *)
(* threads of the pool in contiguous shares; a thread runs the closure on  *)
(* the indices of its share one after the other.  With as many threads as  *)
(* pixels every order of the closures is possible.                         *)
(***************************************************************************)
Threads == 1..num_threads

\* first index of the share of thread t, of n indices among k threads
ShareStart(t, n, k) == (n \div k) * (t - 1) + ((n % k) * (t - 1)) \div k

InitialThreads(n) ==
    [t \in Threads |-> [next |-> ShareStart(t, n, num_threads),
                        hi |-> ShareStart(t + 1, n, num_threads),
                        st |-> "idle",
                        px |-> BlackPixel]]

\* let output_img = Arc::new(Mutex::new(vec![0u8; (width * height * 3) as usize]));
\* then the pixels are collected and the parallel iteration starts
AllocOutput ==
    /\ pc = "alloc"
    /\ LET width == secret_img.width
           height == secret_img.height
       IN  IF overflow_checks /\ MulDimsOverflows(width, height)
           THEN \* attempt to multiply with overflow
                /\ pc' = "exit" /\ err' = "panic"
                /\ UNCHANGED <<output_img, writes, threads>>
           ELSE /\ output_img' = SomeBuffer(Zeros(DigitsToNat(OutputLen(width, height))))
                /\ writes' = Zeros(DigitsToNat(OutputLen(width, height)))
                /\ threads' = InitialThreads(NumPixels(secret_img))
                /\ pc' = "par"
                /\ UNCHANGED err
    /\ UNCHANGED <<codec_vars, args_len, overflow_checks, num_threads, arm,
                   secret_img, decoy_img, lock_holder, poisoned, size_checked,
                   loads, saved>>

\* the closure up to the lock: the pixel of index `next` is processed
TaskCompute(t) ==
    /\ pc = "par"
    /\ threads[t].st = "idle"
    /\ threads[t].next < threads[t].hi
    /\ LET i == threads[t].next
           processed_pixel ==
               IF arm = "encode"
               THEN process_pixel(PixelAt(secret_img, i), PixelAt(decoy_img, i), TRUE)
               ELSE process_pixel(PixelAt(secret_img, i), BlackPixel, FALSE)
       IN  threads' = [threads EXCEPT ![t].st = "computed", ![t].px = processed_pixel]
    /\ UNCHANGED <<codec_vars, args_len, overflow_checks, num_threads, pc, err,
                   arm, secret_img, decoy_img, output_img, lock_holder,
                   poisoned, writes, size_checked, loads, saved>>

\* as MutexFree, but the mutex never makes a thread wait
MutexFree_always == TRUE

MutexFree == lock_holder = 0

\* let mut output = output_img.lock().unwrap();
\* lock() on a poisoned mutex returns Err, unwrap panics and the guard is dropped
TaskLock(t) ==
    /\ pc = "par"
    /\ threads[t].st = "computed"
    /\ MutexFree
    /\ IF poisoned
       THEN /\ threads' = [threads EXCEPT ![t].st = "panicked"]
            /\ UNCHANGED lock_holder
       ELSE /\ threads' = [threads EXCEPT ![t].st = "locked"]
            /\ lock_holder' = t
    /\ UNCHANGED <<codec_vars, args_len, overflow_checks, num_threads, pc, err,
                   arm, secret_img, decoy_img, output_img, poisoned, writes,
                   size_checked, loads, saved>>

\* as SliceStart, but the pixels are appended in the order they are finished
SliceStart_in_completion_order(i) ==
    Cardinality({k \in 1..Len(writes) : writes[k] > 0})

\* output[i*3..i*3+3]: the offset of the first byte of the slice
SliceStart(i) == i * 3

\* the slice i*3..i*3+3 is within a buffer of len bytes: i*3+3 <= len, in usize
SliceInBounds(i, len) == i + 1 <= len \div 3

\* output[i*3..i*3+3].copy_from_slice(&processed_pixel.channels());
\* a slice out of bounds panics under the lock, which poisons the mutex
TaskWrite(t) ==
    /\ pc = "par"
    /\ threads[t].st = "locked"
    /\ LET i == threads[t].next
       IN  IF SliceInBounds(i, Len(output_img.vec))
           THEN /\ output_img' = SomeBuffer([k \in 1..Len(output_img.vec) |->
                                     IF k - SliceStart(i) \in Channels
                                     THEN threads[t].px[k - SliceStart(i)]
                                     ELSE output_img.vec[k]])
                /\ writes' = [k \in 1..Len(writes) |->
                                 IF k - SliceStart(i) \in Channels
                                 THEN writes[k] + 1
                                 ELSE writes[k]]
                /\ threads' = [threads EXCEPT ![t].st = "wrote"]
                /\ UNCHANGED <<lock_holder, poisoned>>
           ELSE /\ threads' = [threads EXCEPT ![t].st = "panicked"]
                /\ poisoned' = TRUE
                /\ lock_holder' = 0
                /\ UNCHANGED <<output_img, writes>>
    /\ UNCHANGED <<codec_vars, args_len, overflow_checks, num_threads, pc, err,
                   arm, secret_img, decoy_img, size_checked, loads, saved>>

\* the end of the closure: the guard is dropped, the thread goes on to its next index
TaskUnlock(t) ==
    /\ pc = "par"
    /\ threads[t].st = "wrote"
    /\ lock_holder' = 0
    /\ threads' = [threads EXCEPT ![t].st = "idle", ![t].next = threads[t].next + 1]
    /\ UNCHANGED <<codec_vars, args_len, overflow_checks, num_threads, pc, err,
                   arm, secret_img, decoy_img, output_img, poisoned, writes,
                   size_checked, loads, saved>>

\* as ThreadDone, but a thread between two closures counts as done
ThreadDone_between_closures(t) ==
    \/ threads[t].st = "panicked"
    \/ threads[t].st = "idle"

\* thread t has run the closure on its whole share, or panicked in it
ThreadDone(t) ==
    \/ threads[t].st = "panicked"
    \/ threads[t].st = "idle" /\ threads[t].next = threads[t].hi

\* for_each returns when every thread is done; a panic of a closure is resumed
\* in the caller, and the process ends with it
Join ==
    /\ pc = "par"
    /\ \A t \in Threads : ThreadDone(t)
    /\ IF \E t \in Threads : threads[t].st = "panicked"
       THEN pc' = "exit" /\ err' = "panic"
       ELSE pc' = "assemble" /\ UNCHANGED err
    /\ UNCHANGED <<codec_vars, args_len, overflow_checks, num_threads, arm,
                   secret_img, decoy_img, output_img, lock_holder, poisoned, threads,
                   writes, size_checked, loads, saved>>

\* let raw_output = Arc::try_unwrap(output_img).unwrap().into_inner()?;
\* RgbImage::from_raw(width, height, raw_output).ok_or("Failed to create image ..")
Assemble ==
    /\ pc = "assemble"
    /\ IF poisoned
       THEN pc' = "exit" /\ err' = "poison" /\ UNCHANGED size_checked
       ELSE /\ size_checked' = TRUE
            /\ IF GeqDigits(Digits(Len(output_img.vec), UsizeBytes),
                            ImageBytes(secret_img.width, secret_img.height))
               THEN pc' = "save" /\ UNCHANGED err
               ELSE pc' = "exit" /\ err' = "assembly"
    /\ UNCHANGED <<codec_vars, args_len, overflow_checks, num_threads, arm,
                   secret_img, decoy_img, output_img, lock_holder, poisoned, threads,
                   writes, loads, saved>>

\* decoded_img.save(..)? / steganographic_img.save(output_path)?, then Ok(())
Save ==
    /\ pc = "save"
    /\ \E ok \in BOOLEAN :
          IF ok
          THEN /\ saved' = [some |-> TRUE, width |-> secret_img.width,
                            height |-> secret_img.height, raw |-> output_img.vec]
               /\ UNCHANGED err
          ELSE err' = "save" /\ UNCHANGED saved
    /\ pc' = "exit"
    /\ UNCHANGED <<codec_vars, args_len, overflow_checks, num_threads, arm,
                   secret_img, decoy_img, output_img, lock_holder, poisoned, threads,
                   writes, size_checked, loads>>

(***************************************************************************)
(* The process                                                             *)
(***************************************************************************)
CodecOff ==
    /\ cstage = "off"
    /\ secret_in = BlackPixel
    /\ decoy_in = BlackPixel
    /\ encoded_px = BlackPixel
    /\ decoded_px = BlackPixel

Init ==
    /\ CodecOff
    /\ args_len \in 0..MaxArgs
    /\ overflow_checks \in BOOLEAN
    /\ num_threads \in 1..MaxThreads
    /\ pc = "match"
    /\ err = "none"
    /\ arm = "none"
    /\ secret_img = NoImage
    /\ decoy_img = NoImage
    /\ output_img = NoBuffer
    /\ lock_holder = 0
    /\ poisoned = FALSE
    /\ threads = <<>>
    /\ writes = <<>>
    /\ size_checked = FALSE
    /\ loads = 0
    /\ saved = NotSaved

Next ==
    \/ MainMatch
    \/ LoadEncoded
    \/ LoadSecret
    \/ LoadDecoy
    \/ CheckCompatibility
    \/ AllocOutput
    \/ \E t \in Threads : TaskCompute(t)
    \/ \E t \in Threads : TaskLock(t)
    \/ \E t \in Threads : TaskWrite(t)
    \/ \E t \in Threads : TaskUnlock(t)
    \/ Join
    \/ Assemble
    \/ Save

Spec == Init /\ [][Next]_vars

(***************************************************************************)
(* process_pixel on its own: one pixel pair, every channel pair (a, b)     *)
(***************************************************************************)
MainOff ==
    /\ args_len = 0
    /\ overflow_checks = FALSE
    /\ num_threads = 1
    /\ pc = "off"
    /\ err = "none"
    /\ arm = "none"
    /\ secret_img = NoImage
    /\ decoy_img = NoImage
    /\ output_img = NoBuffer
    /\ lock_holder = 0
    /\ poisoned = FALSE
    /\ threads = <<>>
    /\ writes = <<>>
    /\ size_checked = FALSE
    /\ loads = 0
    /\ saved = NotSaved

\* the pixel whose channels are a, a + 85 and a + 170 (mod 256): as a runs over
\* the u8 values, so does each channel
PixelFrom(a) == <<a, (a + 85) % 256, (a + 170) % 256>>

InitCodec ==
    /\ MainOff
    /\ cstage = "input"
    /\ \E a \in U8, b \in U8 :
          /\ secret_in = PixelFrom(a)
          /\ decoy_in = PixelFrom(b)
    /\ encoded_px = BlackPixel
    /\ decoded_px = BlackPixel

\* process_pixel(*secret_pixel, *decoy_pixel, true)
EncodePixel ==
    /\ cstage = "input"
    /\ encoded_px' = process_pixel(secret_in, decoy_in, TRUE)
    /\ cstage' = "encoded"
    /\ UNCHANGED <<secret_in, decoy_in, decoded_px, main_vars>>

\* process_pixel(*encoded_pixel, Rgb([0; 3]), false) on an encoded pixel
DecodeEncoded ==
    /\ cstage = "encoded"
    /\ decoded_px' = process_pixel(encoded_px, BlackPixel, FALSE)
    /\ cstage' = "roundtrip"
    /\ UNCHANGED <<secret_in, decoy_in, encoded_px, main_vars>>

\* process_pixel(p, q, false) on any two pixels p and q
DecodePixel ==
    /\ cstage = "input"
    /\ decoded_px' = process_pixel(secret_in, decoy_in, FALSE)
    /\ cstage' = "decoded"
    /\ UNCHANGED <<secret_in, decoy_in, encoded_px, main_vars>>

NextCodec ==
    \/ EncodePixel
    \/ DecodeEncoded
    \/ DecodePixel

SpecCodec == InitCodec /\ [][NextCodec]_vars

(***************************************************************************)
(* Properties of process_pixel                                             *)
(***************************************************************************)
\* C1: decoding the encoding of (a, b) gives a & 0b1000_0000, the top bit of the
\* secret channel a and zeros below it, in each of the three channels.
C1_RoundTrip ==
    cstage = "roundtrip" =>
        \A c \in Channels : decoded_px[c] = IF secret_in[c] >= 128 THEN 128 ELSE 0

\* a round trip of a secret channel with its top bit set and low bits set, hidden in
\* a decoy channel whose lowest bit is 0
C1_Witness ==
    /\ cstage = "roundtrip"
    /\ secret_in[1] = 240 /\ decoy_in[1] = 2
    /\ encoded_px[1] = 3 /\ decoded_px[1] = 128

\* C2: the encoded channel keeps the decoy's top 7 bits, its lowest bit is the
\* secret's top bit, and so it is within 1 of the decoy channel.
C2_EncodeRule ==
    cstage = "encoded" =>
        \A c \in Channels :
            /\ encoded_px[c] \div 2 = decoy_in[c] \div 2
            /\ encoded_px[c] % 2 = secret_in[c] \div 128
            /\ encoded_px[c] = 2 * (decoy_in[c] \div 2) + secret_in[c] \div 128
            /\ encoded_px[c] - decoy_in[c] \in {-1, 0, 1}

\* an encoding that changes the decoy channel: white hidden in black gives 1
C2_Witness ==
    /\ cstage = "encoded"
    /\ secret_in[1] = 255 /\ decoy_in[1] = 0
    /\ encoded_px[1] = 1

\* C3: decoding a channel e gives (e & 1) << 7, which is 0 or 128, whatever the
\* second argument is.
C3_DecodeRule ==
    cstage = "decoded" =>
        \A c \in Channels :
            /\ decoded_px[c] = 128 * (secret_in[c] % 2)
            /\ decoded_px[c] \in {0, 128}

\* a decode call of an odd channel with a second argument that is not zero
C3_Witness ==
    /\ cstage = "decoded"
    /\ secret_in[1] = 3 /\ decoy_in[1] = 255
    /\ decoded_px[1] = 128

(***************************************************************************)
(* Properties of main and of the two transforms                            *)
(***************************************************************************)
Started == output_img.some

\* the transform of the input pixel(s) of index i
Transformed(i) ==
    IF arm = "encode"
    THEN process_pixel(PixelAt(secret_img, i), PixelAt(decoy_img, i), TRUE)
    ELSE process_pixel(PixelAt(secret_img, i), BlackPixel, FALSE)

\* the bytes a sequential pass over the pixels i, i + 1, .., n - 1 produces
RECURSIVE SequentialPass(_, _)
SequentialPass(i, n) ==
    IF i >= n THEN <<>> ELSE Transformed(i) \o SequentialPass(i + 1, n)

\* C4: in an encode run whose two images differ in (width, height), the run ends
\* with the compatibility error, and no buffer is allocated, no pixel is
\* transformed and nothing is saved.
C4_IncompatibleNeverTransformed ==
    (/\ arm = "encode"
     /\ secret_img # NoImage
     /\ decoy_img # NoImage
     /\ dimensions(secret_img) # dimensions(decoy_img))
    => /\ pc \in {"check", "exit"}
       /\ pc = "exit" => err = "compat"
       /\ ~output_img.some
       /\ threads = <<>>
       /\ ~size_checked
       /\ ~saved.some

\* a run that ended with the compatibility error, on images of equal width
C4_Witness ==
    /\ pc = "exit" /\ err = "compat"
    /\ secret_img.width = decoy_img.width
    /\ secret_img.height # decoy_img.height

\* C5: whatever the number of threads and their interleaving, the buffer both
\* transforms hand back is the one a sequential pass in index order produces;
\* while the threads run, every slice written holds the transform of its own pixel.
C5_OutputOrder ==
    /\ Started =>
          \A k \in 1..Len(output_img.vec) :
              output_img.vec[k] =
                  IF writes[k] > 0
                  THEN Transformed((k - 1) \div 3)[((k - 1) % 3) + 1]
                  ELSE 0
    /\ pc \in {"assemble", "save"} =>
          output_img.vec = SequentialPass(0, NumPixels(secret_img))
    /\ saved.some =>
          /\ saved.raw = SequentialPass(0, NumPixels(secret_img))
          /\ <<saved.width, saved.height>> = dimensions(secret_img)

\* the threads run and pixel 1 is in the buffer before pixel 0
C5_Witness ==
    /\ pc = "par"
    /\ num_threads >= 2
    /\ Len(output_img.vec) >= 6
    /\ writes[1] = 0 /\ writes[4] = 1
    /\ <<output_img.vec[4], output_img.vec[5], output_img.vec[6]>> = Transformed(1)
    /\ Transformed(1) # Transformed(0)

\* C7: one path argument (args.len() = 2) takes the decode arm, three take the
\* encode arm; any other count ends the run with "too few" (no path argument) or
\* "too many", and nothing is loaded, transformed or saved.
C7_ArgumentCount ==
    pc # "match" =>
        /\ args_len = 2 =>
              /\ arm = "decode"
              /\ pc \notin {"load_secret", "load_decoy", "check"}
              /\ decoy_img = NoImage
              /\ err \notin {"too_few", "too_many", "compat"}
        /\ args_len = 4 =>
              /\ arm = "encode"
              /\ pc # "load_encoded"
              /\ err \notin {"too_few", "too_many"}
        /\ args_len \notin {2, 4} =>
              /\ pc = "exit"
              /\ err = IF args_len < 2 THEN "too_few" ELSE "too_many"
              /\ arm = "none"
              /\ loads = 0
              /\ secret_img = NoImage /\ decoy_img = NoImage
              /\ ~output_img.some
              /\ threads = <<>>
              /\ ~saved.some

\* a run with two path arguments ended with "too many"
C7_Witness ==
    /\ args_len = 3
    /\ pc = "exit"
    /\ err = "too_many"

\* some per-pixel work has begun: a closure is under way or has stored its pixel
PixelWorkBegun ==
    \/ \E t \in DOMAIN threads : threads[t].st # "idle"
    \/ \E k \in 1..Len(writes) : writes[k] > 0

\* every pixel has been transformed and stored, and every thread is through
PixelWorkComplete ==
    /\ Started
    /\ \A t \in DOMAIN threads :
          threads[t].st = "idle" /\ threads[t].next = threads[t].hi
    /\ \A k \in 1..Len(writes) : writes[k] = 1

\* C6 as claimed: the check of the buffer size against the dimensions has run before
\* the first pixel is transformed or written, in both paths.
C6_CheckBeforePixelWork == PixelWorkBegun => size_checked

\* C6 as amended: the one check of a buffer size against the dimensions, that of
\* RgbImage::from_raw on the output buffer, runs after the parallel phase: no pixel
\* work is under way when it runs, and every pixel has been transformed and stored.
C6_CheckAfterPixelWork ==
    /\ pc \in {"match", "load_encoded", "load_secret", "load_decoy", "check",
                "alloc", "par", "assemble"} => ~size_checked
    /\ size_checked => PixelWorkComplete /\ pc \in {"save", "exit"}

\* the check has run, in an encode run and on a buffer of more than one pixel
C6_Witness ==
    /\ size_checked
    /\ pc = "save"
    /\ arm = "encode"
    /\ Len(output_img.vec) >= 6

\* C8: whatever the dimensions, the buffer allocated has 3 bytes per pixel, so that
\* no slice [3i, 3i+3) is out of bounds and the image is assembled without error.
C8_BufferSizeExact ==
    /\ Started =>
          Digits(Len(output_img.vec), UsizeBytes)
              = ImageBytes(secret_img.width, secret_img.height)
    /\ \A t \in DOMAIN threads : threads[t].st # "panicked"
    /\ err \notin {"panic", "poison", "assembly"}

\* at most one thread is between lock() and the drop of the guard, and it is the
\* holder of the mutex
MutualExclusion ==
    \A t \in DOMAIN threads :
        threads[t].st \in {"locked", "wrote"} =>
            /\ lock_holder = t
            /\ \A u \in DOMAIN threads :
                  threads[u].st \in {"locked", "wrote"} => u = t

\* no byte is stored to twice, and when the threads are joined each was stored to once
WrittenOnce ==
    \A k \in 1..Len(writes) :
        /\ writes[k] <= 1
        /\ pc \in {"assemble", "save"} => writes[k] = 1

\* a step that stores to byte k is the step of a thread that holds the mutex, and
\* k is in the slice of the pixel that thread is at
WriteStep ==
    Started =>
        \A k \in 1..Len(writes) :
            writes'[k] # writes[k] =>
                \E t \in DOMAIN threads :
                    /\ threads[t].st = "locked"
                    /\ lock_holder = t
                    /\ threads'[t].st = "wrote"
                    /\ (k - 1) \div 3 = threads[t].next

\* C9: a thread stores only to the 3 bytes of the pixel it is at and only while it
\* holds the output mutex; at most one thread holds it; no byte is stored to twice
\* and, once the threads are joined, each byte has been stored to exactly once.
C9_DisjointLockedWrites ==
    /\ [](MutualExclusion /\ WrittenOnce)
    /\ [][WriteStep]_vars

\* a thread has stored its pixel under the lock while another waits for the lock
C9_Witness ==
    \E t \in DOMAIN threads, u \in DOMAIN threads :
        /\ t # u
        /\ threads[t].st = "wrote" /\ lock_holder = t
        /\ threads[u].st = "computed"
        /\ \A k \in 1..Len(writes) : writes[k] = IF (k - 1) \div 3 = threads[t].next THEN 1 ELSE 0

\* C10: every closure gets the lock, stores its pixel and releases the lock: none
\* panics, the mutex is never poisoned, and the parallel phase is left only with
\* every pixel stored, the lock free and the buffer complete.
C10_ForkJoinCompletes ==
    /\ \A t \in DOMAIN threads : threads[t].st # "panicked"
    /\ ~poisoned
    /\ (Started /\ pc # "par") =>
          /\ PixelWorkComplete
          /\ lock_holder = 0

====
